---------------------------- MODULE Spec2Model ----------------------------
(***************************************************************************)
(* A model of the dice expression parser of lxs-dice (parser.ts): the     *)
(* tokenizer, the shunting yard conversion, the expression builder, the   *)
(* primitive parser and the roll of the expression tree.                  *)
(*                                                                         *)
(* A text and a token are sequences of one-character strings.  A JavaScript*)
(* number is a record [k, s, n, d]: k = "fin" is the number s * n / d      *)
(* (sign s, n and d coprime, so that s = -1, n = 0 is the negative zero),  *)
(* k = "inf" is s * Infinity and k = "nan" is NaN.  Finite arithmetic is   *)
(* exact: the rounding of IEEE doubles is not modelled.                    *)
(***************************************************************************)
EXTENDS Integers, Sequences, FiniteSets, TLC

(***************************************************************************)
(* JavaScript numbers                                                      *)
(***************************************************************************)
RECURSIVE Gcd(_, _)
Gcd(a, b) == IF b = 0 THEN a ELSE Gcd(b, a % b)

NaN == [k |-> "nan", s |-> 1, n |-> 0, d |-> 1]

Infinity(sign) == [k |-> "inf", s |-> sign, n |-> 0, d |-> 1]

\* The finite number sign * num / den in lowest terms (num >= 0, den > 0).
Fin(sign, num, den) ==
    LET g == Gcd(num, den)
    IN  [k |-> "fin", s |-> sign, n |-> num \div g, d |-> den \div g]

Num(i) == IF i < 0 THEN Fin(-1, -i, 1) ELSE Fin(1, i, 1)

isNaN(a) == a.k = "nan"

IsZero(a) == a.k = "fin" /\ a.n = 0

Neg(a) == IF a.k = "nan" THEN a ELSE [a EXCEPT !.s = -a.s]

\* a < b, a <= b and a === b of two numbers (false when either is NaN;
\* the two zeros are equal).
NumLess(a, b) ==
    /\ a.k # "nan" /\ b.k # "nan"
    /\ IF a.k = "inf" THEN a.s = -1 /\ ~(b.k = "inf" /\ b.s = -1)
       ELSE IF b.k = "inf" THEN b.s = 1
       ELSE a.s * a.n * b.d < b.s * b.n * a.d

NumEq(a, b) ==
    /\ a.k # "nan" /\ b.k # "nan"
    /\ IF a.k = "inf" \/ b.k = "inf" THEN a.k = b.k /\ a.s = b.s
       ELSE a.s * a.n * b.d = b.s * b.n * a.d

NumLeq(a, b) == NumLess(a, b) \/ NumEq(a, b)

NumAdd(a, b) ==
    IF a.k = "nan" \/ b.k = "nan" THEN NaN
    ELSE IF a.k = "inf"
         THEN IF b.k = "inf" /\ b.s # a.s THEN NaN ELSE a
    ELSE IF b.k = "inf" THEN b
    ELSE LET t == a.s * a.n * b.d + b.s * b.n * a.d
         IN  IF t = 0
             THEN Fin(IF a.s = -1 /\ b.s = -1 THEN -1 ELSE 1, 0, 1)
             ELSE Fin(IF t < 0 THEN -1 ELSE 1, IF t < 0 THEN -t ELSE t, a.d * b.d)

NumSub(a, b) == NumAdd(a, Neg(b))

NumMul(a, b) ==
    IF a.k = "nan" \/ b.k = "nan" THEN NaN
    ELSE IF a.k = "inf" \/ b.k = "inf"
         THEN IF IsZero(a) \/ IsZero(b) THEN NaN ELSE Infinity(a.s * b.s)
    ELSE Fin(a.s * b.s, a.n * b.n, a.d * b.d)

NumDiv(a, b) ==
    IF a.k = "nan" \/ b.k = "nan" THEN NaN
    ELSE IF a.k = "inf"
         THEN IF b.k = "inf" THEN NaN ELSE Infinity(a.s * b.s)
    ELSE IF b.k = "inf" THEN Fin(a.s * b.s, 0, 1)
    ELSE IF b.n = 0
         THEN IF a.n = 0 THEN NaN ELSE Infinity(a.s * b.s)
    ELSE Fin(a.s * b.s, a.n * b.d, a.d * b.n)

\* Math.floor
NumFloor(a) ==
    IF a.k # "fin" \/ a.n = 0 THEN a
    ELSE IF a.s = 1 THEN Fin(1, a.n \div a.d, 1)
    ELSE Fin(-1, (a.n + a.d - 1) \div a.d, 1)

(***************************************************************************)
(* Characters and strings                                                  *)
(***************************************************************************)
Digits == <<"0", "1", "2", "3", "4", "5", "6", "7", "8", "9">>

LowerLetters ==
    <<"a", "b", "c", "d", "e", "f", "g", "h", "i", "j", "k", "l", "m",
      "n", "o", "p", "q", "r", "s", "t", "u", "v", "w", "x", "y", "z">>

UpperLetters ==
    <<"A", "B", "C", "D", "E", "F", "G", "H", "I", "J", "K", "L", "M",
      "N", "O", "P", "Q", "R", "S", "T", "U", "V", "W", "X", "Y", "Z">>

Range(f) == {f[i] : i \in DOMAIN f}

IndexOf(f, c) == CHOOSE i \in DOMAIN f : f[i] = c

\* /\d/.test(c)
isDigit(c) == c \in Range(Digits)

DigitValue(c) == IndexOf(Digits, c) - 1

\* /\s/: the white space characters of the model
WhiteSpace == {" ", "\t"}

\* String.prototype.toLowerCase
toLowerCase(str) ==
    [i \in DOMAIN str |->
        IF str[i] \in Range(UpperLetters)
        THEN LowerLetters[IndexOf(UpperLetters, str[i])] ELSE str[i]]

\* String.prototype.charAt: the character, "" outside the string
charAt(str, i) == IF i \in DOMAIN str THEN str[i] ELSE ""

\* String.prototype.trim
RECURSIVE trimStart(_)
trimStart(str) ==
    IF str # <<>> /\ Head(str) \in WhiteSpace THEN trimStart(Tail(str)) ELSE str

RECURSIVE trimEnd(_)
trimEnd(str) ==
    IF str # <<>> /\ str[Len(str)] \in WhiteSpace
    THEN trimEnd(SubSeq(str, 1, Len(str) - 1)) ELSE str

trim(str) == trimEnd(trimStart(str))

\* collapseSpaces left out: the text as it is.
keepSpaces(str) == str

\* str.replace(/\s+/g, ' ')
RECURSIVE collapseSpaces(_)
collapseSpaces(str) ==
    IF str = <<>> THEN <<>>
    ELSE IF Head(str) \in WhiteSpace
         THEN <<" ">> \o collapseSpaces(trimStart(str))
    ELSE <<Head(str)>> \o collapseSpaces(Tail(str))

\* str.split(sep) for a one-character separator: the parts between the
\* separators, in order (one more part than there are separators).
RECURSIVE splitFrom(_, _, _)
splitFrom(str, sep, part) ==
    IF str = <<>> THEN <<part>>
    ELSE IF Head(str) = sep THEN <<part>> \o splitFrom(Tail(str), sep, <<>>)
    ELSE splitFrom(Tail(str), sep, Append(part, Head(str)))

split(str, sep) == splitFrom(str, sep, <<>>)

includes(str, c) == \E i \in DOMAIN str : str[i] = c

(***************************************************************************)
(* Number(str) and parseFloat(str), for strings without white space, an   *)
(* exponent part, a radix prefix (0x, 0o, 0b) or the word Infinity: the    *)
(* texts of the model hold none of the letters these need.                 *)
(***************************************************************************)
\* The length of the longest run of digits of str starting at position i.
RECURSIVE DigitRun(_, _)
DigitRun(str, i) ==
    IF i \in DOMAIN str /\ isDigit(str[i]) THEN 1 + DigitRun(str, i + 1) ELSE 0

\* The value of the digits str[i .. i+len-1] read as a decimal integer.
RECURSIVE DigitsValue(_, _, _)
DigitsValue(str, i, len) ==
    IF len = 0 THEN 0
    ELSE 10 * DigitsValue(str, i, len - 1) + DigitValue(str[i + len - 1])

RECURSIVE Pow10(_)
Pow10(e) == IF e = 0 THEN 1 ELSE 10 * Pow10(e - 1)

\* The longest prefix of str that is a decimal literal, [-] digits [. digits]
\* with the digits of one side of the point optional: its length and value
\* (length 0 when no prefix is one).
DecimalPrefix(str) ==
    LET sign   == IF str # <<>> /\ Head(str) = "-" THEN -1 ELSE 1
        start  == IF sign = -1 THEN 2 ELSE 1
        ilen   == DigitRun(str, start)
        point  == (start + ilen) \in DOMAIN str /\ str[start + ilen] = "."
        flen   == IF point THEN DigitRun(str, start + ilen + 1) ELSE 0
        ival   == DigitsValue(str, start, ilen)
        fval   == DigitsValue(str, start + ilen + 1, flen)
    IN  IF ilen = 0 /\ flen = 0 THEN [len |-> 0, value |-> NaN]
        ELSE [len   |-> (start - 1) + ilen + (IF point THEN 1 + flen ELSE 0),
              value |-> Fin(sign, ival * Pow10(flen) + fval, Pow10(flen))]

\* parseFloat(str): the value of the longest decimal prefix, NaN without one
parseFloat(str) == DecimalPrefix(str).value

\* Number(str), the unary + of the source: the value of str when the whole of
\* it is a decimal literal, 0 for the empty string, NaN otherwise
Number(str) ==
    IF str = <<>> THEN Num(0)
    ELSE IF DecimalPrefix(str).len = Len(str) THEN DecimalPrefix(str).value
    ELSE NaN

(***************************************************************************)
(* Thrown errors and returned values.  A function of the source that can  *)
(* throw is an operator whose value is Return(v) or Throw(kind, message).  *)
(***************************************************************************)
Return(v) == [kind |-> "ok", value |-> v, message |-> ""]

Throw(kind, message) == [kind |-> kind, value |-> <<>>, message |-> message]

DiceParserEmptyError == Throw("Empty", "Empty expression")

DiceParserSyntaxError(issue) == Throw("Syntax", issue)

DiceParserDiceCount == Throw("DiceCount", "Too many dice in expression")

\* What the JavaScript runtime throws when a value that is not a function is
\* called or a restricted property of a built-in function is read.
TypeError == Throw("TypeError", "TypeError")

\* undefined, where a string is expected
undefined == <<"undefined">>

(***************************************************************************)
(* DiceParser: the operator table                                          *)
(***************************************************************************)
top(stack) == IF stack = <<>> THEN undefined ELSE stack[Len(stack)]

pop(stack) == SubSeq(stack, 1, Len(stack) - 1)

isTokenGroupStart(token) == token = <<"(">>

isTokenGroupEnd(token) == token = <<")">>

\* The own keys of the operators record, with their precedence.
operators == [plus |-> 1, minus |-> 1, times |-> 2, divide |-> 2]

operatorKey(token) ==
    CASE token = <<"+">> -> "plus"
      [] token = <<"-">> -> "minus"
      [] token = <<"*">> -> "times"
      [] token = <<"/">> -> "divide"
      [] OTHER -> ""

isOwnOperator(token) == operatorKey(token) # ""

\* The keys the operators record inherits from Object.prototype: a lookup
\* this.operators[token] of one of them finds a function or an object, not an
\* Operator, and it is truthy.
InheritedKeys ==
    { <<"c","o","n","s","t","r","u","c","t","o","r">>,
      <<"t","o","S","t","r","i","n","g">>,
      <<"v","a","l","u","e","O","f">>,
      <<"t","o","L","o","c","a","l","e","S","t","r","i","n","g">>,
      <<"h","a","s","O","w","n","P","r","o","p","e","r","t","y">>,
      <<"i","s","P","r","o","t","o","t","y","p","e","O","f">>,
      <<"p","r","o","p","e","r","t","y","I","s","E","n","u","m","e","r","a","b","l","e">>,
      <<"_","_","p","r","o","t","o","_","_">>,
      <<"_","_","d","e","f","i","n","e","G","e","t","t","e","r","_","_">>,
      <<"_","_","d","e","f","i","n","e","S","e","t","t","e","r","_","_">>,
      <<"_","_","l","o","o","k","u","p","G","e","t","t","e","r","_","_">>,
      <<"_","_","l","o","o","k","u","p","S","e","t","t","e","r","_","_">> }

\* !!token && !!this.operators[token]
isTokenOperator(token) ==
    token # undefined /\ token # <<>>
    /\ (isOwnOperator(token) \/ token \in InheritedKeys)

\* precedenceAtLeast with > for >=.
precedenceAbove(a, b) ==
    isOwnOperator(a) /\ isOwnOperator(b)
    /\ operators[operatorKey(a)] > operators[operatorKey(b)]

\* this.operators[a].precedence >= this.operators[b].precedence: false when
\* either precedence is undefined (an inherited key)
precedenceAtLeast(a, b) ==
    isOwnOperator(a) /\ isOwnOperator(b)
    /\ operators[operatorKey(a)] >= operators[operatorKey(b)]

(***************************************************************************)
(* DiceParser.tokenize                                                     *)
(***************************************************************************)
\* /\w/.test(c)
isCharPrimitive(c) ==
    c \in Range(Digits) \cup Range(LowerLetters) \cup Range(UpperLetters) \cup {"_"}

isCharOperator(c) == isTokenOperator(<<c>>)

\* isUnaryMinus without the case of a text that starts with the minus sign.
isUnaryMinusAfterToken(c, current, lastToken, nextC) ==
    /\ c = "-"
    /\ current = <<>>
    /\ (lastToken = <<",">> \/ isTokenGroupStart(lastToken) \/ isTokenOperator(lastToken))
    /\ isDigit(nextC)

\* isUnaryMinus without the test of the last token.
isUnaryMinusBeforeDigit(c, current, lastToken, nextC) ==
    /\ c = "-"
    /\ current = <<>>
    /\ isDigit(nextC)

\* The test that makes '-' the first character of a primitive.
isUnaryMinus(c, current, lastToken, nextC) ==
    /\ c = "-"
    /\ current = <<>>
    /\ (lastToken = undefined \/ lastToken = <<",">>
        \/ isTokenGroupStart(lastToken) \/ isTokenOperator(lastToken))
    /\ isDigit(nextC)

\* isConsecutiveOperator that compares the operator with the last token.
isRepeatedOperator(c, current, lastToken) ==
    isCharOperator(c) /\ current = <<>> /\ lastToken = <<c>>

\* isCharOperator(c) && !currentParsingStarted && isCharOperator(lastToken || '')
isConsecutiveOperator(c, current, lastToken) ==
    isCharOperator(c) /\ current = <<>> /\ isTokenOperator(lastToken)

\* emitDelimiter without currentAdded = undefined.
emitDelimiterOnly(tokens, current, currentAdded, c) ==
    [tokens |-> (IF current # <<>> THEN Append(tokens, current) ELSE tokens)
                    \o << <<c>> >>,
     current |-> <<>>, currentAdded |-> currentAdded]

\* The token in progress, if any, and the delimiter c are pushed; the token in
\* progress and its flag are reset.
emitDelimiter(tokens, current, currentAdded, c) ==
    [tokens |-> (IF current # <<>> THEN Append(tokens, current) ELSE tokens)
                    \o << <<c>> >>,
     current |-> <<>>, currentAdded |-> FALSE]

\* The body of the loop of tokenize for character i, with the tokens emitted
\* so far, the token in progress and the flag of its decimal point: the three
\* after the character, or the error it throws.
tokenizeStep(trimmedValue, i, tokens, current, currentAdded) ==
    LET c == charAt(trimmedValue, i)
        prevC == charAt(trimmedValue, i - 1)
        nextC == charAt(trimmedValue, i + 1)
        lastToken == top(tokens)
        currentParsingStarted == current # <<>>
    IN  IF isCharPrimitive(c) \/ isUnaryMinus(c, current, lastToken, nextC)
        THEN Return([tokens |-> tokens, current |-> Append(current, c),
                     currentAdded |-> currentAdded])
        ELSE IF c = "."
        THEN IF currentParsingStarted /\ currentAdded
             THEN DiceParserSyntaxError("Invalid \".\" character")
             ELSE Return([tokens |-> tokens, current |-> Append(current, c),
                          currentAdded |-> TRUE])
        ELSE IF c = " "
        THEN IF isCharPrimitive(prevC) /\ isCharPrimitive(nextC)
             THEN DiceParserSyntaxError("Extraneous space between tokens")
             ELSE Return([tokens |-> tokens, current |-> current,
                          currentAdded |-> currentAdded])
        ELSE IF isCharOperator(c) \/ isTokenGroupStart(<<c>>)
                \/ isTokenGroupEnd(<<c>>) \/ c = ","
        THEN IF isConsecutiveOperator(c, current, lastToken)
             THEN DiceParserSyntaxError("Consecutive operators")
             ELSE Return(emitDelimiter(tokens, current, currentAdded, c))
        ELSE DiceParserSyntaxError("Invalid character")

\* The loop of tokenize from character i on, and the push of the token in
\* progress after it.
RECURSIVE tokenizeFrom(_, _, _, _, _)
tokenizeFrom(trimmedValue, i, tokens, current, currentAdded) ==
    IF i > Len(trimmedValue)
    THEN Return(IF current # <<>> THEN Append(tokens, current) ELSE tokens)
    ELSE LET step == tokenizeStep(trimmedValue, i, tokens, current, currentAdded)
         IN  IF step.kind # "ok" THEN step
             ELSE tokenizeFrom(trimmedValue, i + 1, step.value.tokens,
                               step.value.current, step.value.currentAdded)

\* The values of i, tokens, current and currentAdded at the head of the loop
\* of tokenize, one for each test of i < trimmedValue.length that is reached.
RECURSIVE tokenizeStatesFrom(_, _, _, _, _)
tokenizeStatesFrom(trimmedValue, i, tokens, current, currentAdded) ==
    <<[i |-> i, tokens |-> tokens, current |-> current,
       currentAdded |-> currentAdded]>>
    \o (IF i > Len(trimmedValue) THEN <<>>
        ELSE LET step == tokenizeStep(trimmedValue, i, tokens, current, currentAdded)
             IN  IF step.kind # "ok" THEN <<>>
                 ELSE tokenizeStatesFrom(trimmedValue, i + 1, step.value.tokens,
                          step.value.current, step.value.currentAdded))

tokenizeStates(value) ==
    tokenizeStatesFrom(collapseSpaces(trim(value)), 1, <<>>, <<>>, FALSE)

tokenize(value) == tokenizeFrom(collapseSpaces(trim(value)), 1, <<>>, <<>>, FALSE)

(***************************************************************************)
(* DiceParser.shuntingYardConversion                                       *)
(***************************************************************************)
\* while (operatorStack.length && !isTokenGroupStart(top(operatorStack)))
\*     outputStack.push(operatorStack.pop())
\* The two stacks after the loop.
RECURSIVE popToGroupStart(_, _)
popToGroupStart(outputStack, operatorStack) ==
    IF operatorStack # <<>> /\ ~isTokenGroupStart(top(operatorStack))
    THEN popToGroupStart(Append(outputStack, top(operatorStack)), pop(operatorStack))
    ELSE [outputStack |-> outputStack, operatorStack |-> operatorStack]

\* The loop of an operator token: the operators on top of the stack whose
\* precedence is at least the token's go to the output.
RECURSIVE popOperators(_, _, _)
popOperators(outputStack, operatorStack, token) ==
    IF operatorStack # <<>> /\ isTokenOperator(top(operatorStack))
       /\ precedenceAtLeast(top(operatorStack), token)
    THEN popOperators(Append(outputStack, top(operatorStack)), pop(operatorStack), token)
    ELSE [outputStack |-> outputStack, operatorStack |-> operatorStack]

\* closeGroup that takes an exhausted stack for a closed group.
closeGroupUnchecked(st) ==
    Return([st EXCEPT !.operatorStack =
               IF st.operatorStack = <<>> THEN <<>> ELSE pop(st.operatorStack)])

\* After the loop of a closing parenthesis: the opening one comes off the
\* stack; a stack without one is an error.
closeGroup(st) ==
    IF st.operatorStack # <<>> /\ isTokenGroupStart(top(st.operatorStack))
    THEN Return([st EXCEPT !.operatorStack = pop(st.operatorStack)])
    ELSE DiceParserSyntaxError("Parenthesis mismatch")

\* The body of tokens.forEach for one token: the two stacks after it, or the
\* error it throws.
shuntingYardStep(outputStack, operatorStack, token) ==
    IF isTokenGroupStart(token)
    THEN Return([outputStack |-> outputStack,
                 operatorStack |-> Append(operatorStack, token)])
    ELSE IF isTokenGroupEnd(token)
    THEN closeGroup(popToGroupStart(outputStack, operatorStack))
    ELSE IF token = <<",">>
    THEN LET st == popToGroupStart(outputStack, operatorStack)
         IN  IF st.operatorStack = <<>>
             THEN DiceParserSyntaxError("Misplaced \",\"")
             ELSE Return(st)
    ELSE IF isTokenOperator(token)
    THEN LET st == popOperators(outputStack, operatorStack, token)
         IN  Return([st EXCEPT !.operatorStack = Append(st.operatorStack, token)])
    ELSE Return([outputStack |-> Append(outputStack, token),
                 operatorStack |-> operatorStack])

\* The final loop: the operators left go to the output; an opening
\* parenthesis left on the stack is an error.
RECURSIVE popRemaining(_, _)
popRemaining(outputStack, operatorStack) ==
    IF operatorStack = <<>> THEN Return(outputStack)
    ELSE IF ~isTokenGroupStart(top(operatorStack))
    THEN popRemaining(Append(outputStack, top(operatorStack)), pop(operatorStack))
    ELSE DiceParserSyntaxError("Parenthesis mismatch")

RECURSIVE shuntingYardFrom(_, _, _, _)
shuntingYardFrom(tokens, i, outputStack, operatorStack) ==
    IF i > Len(tokens) THEN popRemaining(outputStack, operatorStack)
    ELSE LET r == shuntingYardStep(outputStack, operatorStack, tokens[i])
         IN  IF r.kind # "ok" THEN r
             ELSE shuntingYardFrom(tokens, i + 1, r.value.outputStack,
                                   r.value.operatorStack)

shuntingYardConversion(tokens) == shuntingYardFrom(tokens, 1, <<>>, <<>>)

(***************************************************************************)
(* The expression classes and the results                                  *)
(***************************************************************************)
NumericalExpression(value) == [type |-> "Numerical", value |-> value]

DiceRollExpression(size) == [type |-> "DiceRoll", size |-> size]

CountedDiceRollExpression(count, dice) ==
    [type |-> "CountedDiceRoll", count |-> count, dice |-> dice]

InfixArithmeticExpression(left, right, operator) ==
    [type |-> "InfixArithmetic", left |-> left, right |-> right,
     operator |-> operator]

\* undefined, where an expression is expected
undefinedExpression == [type |-> "undefined"]

\* undefined, where a number is expected (maximumDiceCount)
undefinedNumber == [k |-> "undefined", s |-> 1, n |-> 0, d |-> 1]

\* A DiceRolled record: a flag that is not set is FALSE.
DiceRolled(size, value, isMax, isMin) ==
    [size |-> size, value |-> value, isMax |-> isMax, isMin |-> isMin]

AccumulatedResult(value, diceRolled) == [value |-> value, diceRolled |-> diceRolled]

(***************************************************************************)
(* DiceParser.expressionForPrimitive                                       *)
(***************************************************************************)
isNumeric(value) == ~isNaN(Number(value)) /\ ~isNaN(parseFloat(value))

\* if (count < 1)
isCountRejected(count) == NumLess(count, Num(1))

expressionForPrimitive(token) ==
    LET tokenLower == toLowerCase(token)
        parts == split(tokenLower, "d")
        countPart == IF parts[1] = <<>> THEN <<"1">> ELSE parts[1]
        count == parseFloat(countPart)
    IN  IF includes(tokenLower, "d")
        THEN IF Len(parts) # 2
             THEN DiceParserSyntaxError("Unrecognized input with too may letter d's")
             ELSE IF ~isNumeric(parts[2])
             THEN DiceParserSyntaxError("Unrecognized input following letter d")
             ELSE IF ~isNumeric(countPart)
             THEN DiceParserSyntaxError("Unrecognized input before letter d")
             ELSE IF isCountRejected(count)
             THEN DiceParserSyntaxError("Unallowed count before letter d")
             ELSE Return(CountedDiceRollExpression(count,
                             DiceRollExpression(parseFloat(parts[2]))))
        ELSE IF isNumeric(token)
        THEN Return(NumericalExpression(parseFloat(token)))
        ELSE DiceParserSyntaxError("Unrecognized input")

(***************************************************************************)
(* DiceParser.expressionForReversePolishNotation                           *)
(***************************************************************************)
\* buildOperator without params.reverse(): the parameters in the order they
\* come off the stack.
buildOperatorUnreversed(stack, token) ==
    IF ~isOwnOperator(token) THEN TypeError
    ELSE IF Len(stack) < 2
    THEN DiceParserSyntaxError("Incorrect amount of arguments")
    ELSE Return(Append(SubSeq(stack, 1, Len(stack) - 2),
                   InfixArithmeticExpression(stack[Len(stack)],
                       stack[Len(stack) - 1], token[1])))

\* An operator token: its two parameters come off the stack, the right one
\* first.  A key inherited from Object.prototype passes isTokenOperator and
\* is no Operator: reading its arguments or calling its operation throws.
buildOperator(stack, token) ==
    IF ~isOwnOperator(token) THEN TypeError
    ELSE IF Len(stack) < 2
    THEN DiceParserSyntaxError("Incorrect amount of arguments")
    ELSE Return(Append(SubSeq(stack, 1, Len(stack) - 2),
                   InfixArithmeticExpression(stack[Len(stack) - 1],
                       stack[Len(stack)], token[1])))

\* The dice counted so far once exp is added.
addDiceCount(diceCount, exp, maximumDiceCount) ==
    IF maximumDiceCount # undefinedNumber /\ exp.type = "CountedDiceRoll"
    THEN NumAdd(diceCount, exp.count) ELSE diceCount

\* exceedsMaximum with >= for >.
reachesMaximum(diceCount, exp, maximumDiceCount) ==
    /\ maximumDiceCount # undefinedNumber
    /\ exp.type = "CountedDiceRoll"
    /\ NumLeq(maximumDiceCount, diceCount)

\* if (diceCount > this.maximumDiceCount)
exceedsMaximum(diceCount, exp, maximumDiceCount) ==
    /\ maximumDiceCount # undefinedNumber
    /\ exp.type = "CountedDiceRoll"
    /\ NumLess(maximumDiceCount, diceCount)

\* return stack[0] after the check of the stack's length
buildResult(stack) ==
    IF Len(stack) > 1 THEN DiceParserSyntaxError("Insufficient operators")
    ELSE Return(IF stack = <<>> THEN undefinedExpression ELSE stack[1])

RECURSIVE buildFrom(_, _, _, _, _)
buildFrom(tokens, i, stack, diceCount, maximumDiceCount) ==
    IF i > Len(tokens) THEN buildResult(stack)
    ELSE IF isTokenOperator(tokens[i])
    THEN LET r == buildOperator(stack, tokens[i])
         IN  IF r.kind # "ok" THEN r
             ELSE buildFrom(tokens, i + 1, r.value, diceCount, maximumDiceCount)
    ELSE LET r == expressionForPrimitive(tokens[i])
         IN  IF r.kind # "ok" THEN r
             ELSE LET counted == addDiceCount(diceCount, r.value, maximumDiceCount)
                  IN  IF exceedsMaximum(counted, r.value, maximumDiceCount)
                      THEN DiceParserDiceCount
                      ELSE buildFrom(tokens, i + 1, Append(stack, r.value),
                                     counted, maximumDiceCount)

expressionForReversePolishNotation(tokens, maximumDiceCount) ==
    buildFrom(tokens, 1, <<>>, Num(0), maximumDiceCount)

(***************************************************************************)
(* DiceParser.parse                                                        *)
(***************************************************************************)
parse(value, maximumDiceCount) ==
    LET tokens == tokenize(value)
        rpnStack == shuntingYardConversion(tokens.value)
    IN  IF tokens.kind # "ok" THEN tokens
        ELSE IF tokens.value = <<>> THEN DiceParserEmptyError
        ELSE IF rpnStack.kind # "ok" THEN rpnStack
        ELSE expressionForReversePolishNotation(rpnStack.value, maximumDiceCount)

(***************************************************************************)
(* roll.  Math.random() is a stream of fractions k / RandomDenominator,   *)
(* 0 <= k < RandomDenominator: a roll draws them in turn from a tape that  *)
(* it reads cyclically, `next' being the number of draws made so far.      *)
(***************************************************************************)
RandomDenominator == 2

RandomDraws == 0 .. (RandomDenominator - 1)

\* The tapes of Math.random a roll may meet: two draws, then the same again.
RandomTapes == RandomDraws \X RandomDraws

random(tape, next) == Fin(1, tape[(next % Len(tape)) + 1], RandomDenominator)

\* rollDice that records the rolled value as the size of the die.
rollDiceSizeOfValue(size, tape, next) ==
    LET value == NumAdd(NumFloor(NumMul(random(tape, next), size)), Num(1))
        isMax == NumEq(value, size)
        isMin == ~isMax /\ NumEq(value, Num(1))
    IN  [result |-> AccumulatedResult(value, <<DiceRolled(value, value, isMax, isMin)>>),
         next |-> next + 1]

\* rollDice with an if for the else if: isMin whenever the value is 1.
rollDiceMinOfOne(size, tape, next) ==
    LET value == NumAdd(NumFloor(NumMul(random(tape, next), size)), Num(1))
        isMax == NumEq(value, size)
        isMin == NumEq(value, Num(1))
    IN  [result |-> AccumulatedResult(value, <<DiceRolled(size, value, isMax, isMin)>>),
         next |-> next + 1]

\* DiceRollExpression.roll
rollDice(size, tape, next) ==
    LET value == NumAdd(NumFloor(NumMul(random(tape, next), size)), Num(1))
        isMax == NumEq(value, size)
        isMin == ~isMax /\ NumEq(value, Num(1))
    IN  [result |-> AccumulatedResult(value, <<DiceRolled(size, value, isMax, isMin)>>),
         next |-> next + 1]

\* How many times CountedDiceRollExpression.roll calls this.dice.roll(): once
\* before the loop and once for each i = 1, 2, ... with i < count.
rollTimes(count) ==
    IF count.k = "fin" /\ count.s = 1 /\ NumLess(Num(1), count)
    THEN (count.n + count.d - 1) \div count.d
    ELSE 1

\* acc.value + next.value over the rolls lo .. hi (the values are exact, so
\* the additions are grouped in halves to keep the evaluation shallow).
RECURSIVE sumOfRolls(_, _, _)
sumOfRolls(rolls, lo, hi) ==
    IF lo = hi THEN rolls[lo].value
    ELSE LET mid == (lo + hi) \div 2
         IN  NumAdd(sumOfRolls(rolls, lo, mid), sumOfRolls(rolls, mid + 1, hi))

\* CountedDiceRollExpression.roll: the rolls of the die accumulated.
rollCounted(count, size, tape, next) ==
    LET times == rollTimes(count)
        rolls == [i \in 1 .. times |->
                     rollDice(size, tape, next + i - 1).result.diceRolled[1]]
    IN  [result |-> AccumulatedResult(sumOfRolls(rolls, 1, times), rolls),
         next |-> next + times]

applyOperator(operator, left, right) ==
    CASE operator = "+" -> NumAdd(left, right)
      [] operator = "-" -> NumSub(left, right)
      [] operator = "*" -> NumMul(left, right)
      [] operator = "/" -> NumDiv(left, right)

RECURSIVE rollFrom(_, _, _)
rollFrom(exp, tape, next) ==
    CASE exp.type = "Numerical" ->
           [result |-> AccumulatedResult(exp.value, <<>>), next |-> next]
      [] exp.type = "DiceRoll" -> rollDice(exp.size, tape, next)
      [] exp.type = "CountedDiceRoll" ->
           rollCounted(exp.count, exp.dice.size, tape, next)
      [] exp.type = "InfixArithmetic" ->
           LET left == rollFrom(exp.left, tape, next)
               right == rollFrom(exp.right, tape, left.next)
           IN  [result |-> AccumulatedResult(
                               applyOperator(exp.operator, left.result.value,
                                             right.result.value),
                               left.result.diceRolled \o right.result.diceRolled),
                next |-> right.next]

\* exp.roll(): calling roll on undefined throws
roll(exp, tape) ==
    IF exp = undefinedExpression THEN TypeError
    ELSE Return(rollFrom(exp, tape, 0).result)

(***************************************************************************)
(* The state: a parser, the text its caller passes to parse (main.ts), the *)
(* outcome of the last call of parse and of the last call of roll on the   *)
(* expression parse returned.                                              *)
(***************************************************************************)
VARIABLES
    text,              \* the text the caller passes to parse
    maximumDiceCount,  \* DiceParser.maximumDiceCount
    parsed,            \* the last call of parse: the expression or the error
    parsedWith,        \* maximumDiceCount as it was during that call
    previous,          \* the kind of outcome of the call of parse before it
    rolled             \* the last call of roll on parsed.value

vars == <<text, maximumDiceCount, parsed, parsedWith, previous, rolled>>

\* No call made yet.
NotCalled == Throw("none", "")

\* The texts made of at most n of the given pieces.
RECURSIVE Concat(_)
Concat(ps) == IF ps = <<>> THEN <<>> ELSE Head(ps) \o Concat(Tail(ps))

TextsOf(pieces, n) == UNION { {Concat(ps) : ps \in [1 .. k -> pieces]} : k \in 0 .. n }

Chars(cs) == {<<c>> : c \in cs}

\* The texts a o b o c of three of the operands and two of the operators.
Chains(operands, ops) ==
    {Concat(<<a, o1, b, o2, c>>) :
        a \in operands, b \in operands, c \in operands, o1 \in ops, o2 \in ops}

\* The same with one of the two operations in parentheses.
Grouped(operands, ops) ==
    {Concat(<<<<"(">>, a, o1, b, <<")">>, o2, c>>) :
        a \in operands, b \in operands, c \in operands, o1 \in ops, o2 \in ops}
    \cup {Concat(<<a, o1, <<"(">>, b, o2, c, <<")">>>>) :
        a \in operands, b \in operands, c \in operands, o1 \in ops, o2 \in ops}

(***************************************************************************)
(* The operations                                                          *)
(***************************************************************************)
InitWith(texts) ==
    /\ text \in texts
    /\ maximumDiceCount = undefinedNumber
    /\ parsed = NotCalled
    /\ parsedWith = undefinedNumber
    /\ previous = "none"
    /\ rolled = NotCalled

\* parser.maximumDiceCount = m
SetMaximumDiceCount(m) ==
    /\ maximumDiceCount # m
    /\ maximumDiceCount' = m
    /\ UNCHANGED <<text, parsed, parsedWith, previous, rolled>>

\* parser.parse(text)
Parse ==
    /\ parsed' = parse(text, maximumDiceCount)
    /\ parsedWith' = maximumDiceCount
    /\ previous' = parsed.kind
    /\ rolled' = NotCalled
    /\ UNCHANGED <<text, maximumDiceCount>>

\* exp.roll() on the value parse returned, Math.random() reading the tape
Roll(tape) ==
    /\ parsed.kind = "ok"
    /\ rolled' = roll(parsed.value, tape)
    /\ UNCHANGED <<text, maximumDiceCount, parsed, parsedWith, previous>>

(***************************************************************************)
(* Spec: texts of at most MaxLen characters (and the name of one inherited *)
(* key), parsed by a parser left with its default configuration.           *)
(***************************************************************************)
MaxLen == 4

Alphabet ==
    Chars({"0", "2", "d", "a", ".", "-", "+", "(", ")"})
        \cup {<<"v","a","l","u","e","O","f">>}

Init == InitWith(TextsOf(Alphabet, MaxLen))

Next ==
    \/ Parse
    \/ \E tape \in RandomTapes : Roll(tape)

Spec == Init /\ [][Next]_vars

(***************************************************************************)
(* The grammar of the specification, read directly from the text:          *)
(*     expr := term (('+' | '-' | '*' | '/') term)*                        *)
(*     term := number | dicePrimitive | '(' expr ')'                       *)
(*     number := ['-'] digits ['.' digits]                                 *)
(*     dicePrimitive := [digits] 'd' digits                                *)
(* with * and / binding tighter than + and -, all four grouping left to    *)
(* right.  A dice primitive of count K stands for the sum of the next K    *)
(* die records of `dice'.  Each operator below yields [ok, pos, value,     *)
(* used]: whether a phrase starts at position i, the position after it,    *)
(* its value and the number of die records used up to there.               *)
(***************************************************************************)
GrammarFail == [ok |-> FALSE, pos |-> 0, value |-> NaN, used |-> 0]

RECURSIVE SkipSpaces(_, _)
SkipSpaces(t, i) ==
    IF i \in DOMAIN t /\ t[i] \in WhiteSpace THEN SkipSpaces(t, i + 1) ELSE i

\* number := ['-'] digits ['.' digits]
GrammarNumber(t, i, used) ==
    LET neg   == i \in DOMAIN t /\ t[i] = "-"
        start == IF neg THEN i + 1 ELSE i
        ilen  == DigitRun(t, start)
        point == (start + ilen) \in DOMAIN t /\ t[start + ilen] = "."
        flen  == IF point THEN DigitRun(t, start + ilen + 1) ELSE 0
        whole == Num(DigitsValue(t, start, ilen))
        frac  == NumDiv(Num(DigitsValue(t, start + ilen + 1, flen)), Num(Pow10(flen)))
        abs   == NumAdd(whole, frac)
    IN  IF ilen = 0 THEN GrammarFail
        ELSE [ok |-> TRUE,
              pos |-> start + ilen + (IF flen > 0 THEN 1 + flen ELSE 0),
              value |-> IF neg THEN Neg(abs) ELSE abs,
              used |-> used]

RECURSIVE SumOfDice(_, _, _)
SumOfDice(dice, from, count) ==
    IF count = 0 THEN Num(0)
    ELSE IF count = 1 THEN dice[from].value
    ELSE LET half == count \div 2
         IN  NumAdd(SumOfDice(dice, from, half),
                    SumOfDice(dice, from + half, count - half))

\* dicePrimitive := [digits] 'd' digits
GrammarDice(t, i, dice, used) ==
    LET clen  == DigitRun(t, i)
        isD   == (i + clen) \in DOMAIN t /\ t[i + clen] \in {"d", "D"}
        slen  == DigitRun(t, i + clen + 1)
        count == IF clen = 0 THEN 1 ELSE DigitsValue(t, i, clen)
    IN  IF ~isD \/ slen = 0 \/ used + count > Len(dice) THEN GrammarFail
        ELSE [ok |-> TRUE, pos |-> i + clen + 1 + slen,
              value |-> SumOfDice(dice, used + 1, count),
              used |-> used + count]

RECURSIVE GrammarTerm(_, _, _, _)
RECURSIVE GrammarProductRest(_, _, _, _)
RECURSIVE GrammarSumRest(_, _, _, _)

\* expr at position i: a product, then the sums and differences after it
GrammarExpr(t, i, dice, used) ==
    LET first == GrammarTerm(t, i, dice, used)
        product == IF first.ok THEN GrammarProductRest(t, first, dice, first.used)
                   ELSE GrammarFail
    IN  IF product.ok THEN GrammarSumRest(t, product, dice, product.used)
        ELSE GrammarFail

\* term := number | dicePrimitive | '(' expr ')'
GrammarTerm(t, i0, dice, used) ==
    LET i == SkipSpaces(t, i0)
        inner == GrammarExpr(t, i + 1, dice, used)
        close == SkipSpaces(t, inner.pos)
        asDice == GrammarDice(t, i, dice, used)
    IN  IF i \in DOMAIN t /\ t[i] = "("
        THEN IF inner.ok /\ close \in DOMAIN t /\ t[close] = ")"
             THEN [inner EXCEPT !.pos = close + 1] ELSE GrammarFail
        ELSE IF asDice.ok THEN asDice
        ELSE GrammarNumber(t, i, used)

\* (('*' | '/') term)* after the product acc, grouping left to right
GrammarProductRest(t, acc, dice, used) ==
    LET i == SkipSpaces(t, acc.pos)
        right == GrammarTerm(t, i + 1, dice, used)
    IN  IF i \in DOMAIN t /\ t[i] \in {"*", "/"}
        THEN IF right.ok
             THEN GrammarProductRest(t,
                      [right EXCEPT !.value =
                          IF t[i] = "*" THEN NumMul(acc.value, right.value)
                          ELSE NumDiv(acc.value, right.value)],
                      dice, right.used)
             ELSE GrammarFail
        ELSE acc

\* (('+' | '-') product)* after the sum acc, grouping left to right
GrammarSumRest(t, acc, dice, used) ==
    LET i == SkipSpaces(t, acc.pos)
        first == GrammarTerm(t, i + 1, dice, used)
        right == IF first.ok THEN GrammarProductRest(t, first, dice, first.used)
                 ELSE GrammarFail
    IN  IF i \in DOMAIN t /\ t[i] \in {"+", "-"}
        THEN IF right.ok
             THEN GrammarSumRest(t,
                      [right EXCEPT !.value =
                          IF t[i] = "+" THEN NumAdd(acc.value, right.value)
                          ELSE NumSub(acc.value, right.value)],
                      dice, right.used)
             ELSE GrammarFail
        ELSE acc

\* The whole text as an expr that uses all the die records: its value.
GrammarValue(t, dice) ==
    LET r == GrammarExpr(t, 1, dice, 0)
    IN  IF r.ok /\ SkipSpaces(t, r.pos) = Len(t) + 1 /\ r.used = Len(dice)
        THEN r ELSE GrammarFail

(***************************************************************************)
(* SpecArith: texts of at most MaxArith tokens (numbers, dice, operators   *)
(* of both precedences, parentheses) and the texts of three operands and   *)
(* two of the four operators, with and without parentheses, parsed and     *)
(* rolled.                                                                 *)
(***************************************************************************)
MaxArith == 5

ArithPieces == Chars({"2", "-", "*", "/", "(", ")"}) \cup {<<" ", "d", "2">>}

ArithOperands == {<<"2">>, <<"3">>, <<"d", "2">>, <<"2", "d", "2">>}

ArithTexts ==
    TextsOf(ArithPieces, MaxArith)
        \cup Chains(ArithOperands, Chars({"+", "-", "*", "/"}))
        \cup Grouped(ArithOperands, Chars({"+", "-", "*", "/"}))

InitArith == InitWith(ArithTexts)

SpecArith == InitArith /\ [][Next]_vars

\* A roll of the expression parse returned has produced a result.
Rolled == parsed.kind = "ok" /\ rolled.kind = "ok"

\* C1: for every accepted text that is an expression built from numeric
\* literals, dice primitives, + - * / and parentheses, the value of a roll is
\* the value of the expression under the usual rules (* and / before + and -,
\* equal precedence left to right, a parenthesised expression as a unit),
\* each dice primitive standing for the sum of its die records.
C1_ValueByUsualRules ==
    Rolled =>
        LET usual == GrammarValue(text, rolled.value.diceRolled)
        IN  usual.ok => rolled.value.value = usual.value

\* A roll of a text without parentheses whose two operators have the same
\* precedence and do not commute: a - b - c or a / b / c.
C1_Witness ==
    /\ Rolled
    /\ GrammarValue(text, rolled.value.diceRolled).ok
    /\ \A i \in DOMAIN text : text[i] \notin {"(", ")"}
    /\ parsed.value.type = "InfixArithmetic"
    /\ parsed.value.operator \in {"-", "/"}
    /\ parsed.value.left.type = "InfixArithmetic"
    /\ parsed.value.left.operator = parsed.value.operator

(***************************************************************************)
(* What the claims speak of, read from the text or the tree                *)
(***************************************************************************)
Called == parsed.kind # "none"

\* str is a number as the grammar writes it: ['-'] digits ['.' digits]
IsGrammarNumber(str) ==
    GrammarNumber(str, 1, 0).ok /\ GrammarNumber(str, 1, 0).pos = Len(str) + 1

GrammarNumberValue(str) == GrammarNumber(str, 1, 0).value

\* str is a decimal numeral in the wider sense of JavaScript, where the
\* digits of one side of the point may be missing: an optional '-', then
\* digits and at most one point, at least one digit.
IsNumeral(str) ==
    LET body == IF str # <<>> /\ str[1] = "-" THEN Tail(str) ELSE str
    IN  /\ \A i \in DOMAIN body : isDigit(body[i]) \/ body[i] = "."
        /\ \E i \in DOMAIN body : isDigit(body[i])
        /\ Cardinality({i \in DOMAIN body : body[i] = "."}) <= 1

\* The positions of the letter d, of either case, in str.
LetterDs(str) == {i \in DOMAIN str : str[i] \in {"d", "D"}}

\* str has the form [count]d<size> with exactly one letter d.
IsDiceForm(str) == Cardinality(LetterDs(str)) = 1

CountPart(str) == SubSeq(str, 1, (CHOOSE i \in LetterDs(str) : TRUE) - 1)

SizePart(str) == SubSeq(str, (CHOOSE i \in LetterDs(str) : TRUE) + 1, Len(str))

\* The tokens of the text that are neither operators, parentheses nor commas.
IsDelimiter(token) ==
    token \in {<<"+">>, <<"-">>, <<"*">>, <<"/">>, <<"(">>, <<")">>, <<",">>}

PrimitiveTokens ==
    LET tokens == tokenize(text)
    IN  IF tokens.kind # "ok" THEN {}
        ELSE {tokens.value[i] : i \in {j \in DOMAIN tokens.value :
                                          ~IsDelimiter(tokens.value[j])}}

\* The Counted-Dice nodes of an expression, left to right.
RECURSIVE CountedNodes(_)
CountedNodes(exp) ==
    CASE exp.type = "CountedDiceRoll" -> <<exp>>
      [] exp.type = "InfixArithmetic" -> CountedNodes(exp.left) \o CountedNodes(exp.right)
      [] OTHER -> <<>>

\* The parentheses of the text match: none closes without one open, and none
\* is left open.
RECURSIVE OpenAfter(_, _)
OpenAfter(str, i) ==
    IF i = 0 THEN 0
    ELSE OpenAfter(str, i - 1)
         + (IF str[i] = "(" THEN 1 ELSE IF str[i] = ")" THEN -1 ELSE 0)

ParenthesesMatch(str) ==
    /\ \A i \in DOMAIN str : OpenAfter(str, i) >= 0
    /\ OpenAfter(str, Len(str)) = 0

(***************************************************************************)
(* The claims                                                              *)
(***************************************************************************)
\* C2: when the text is KdN (K omitted meaning 1) and parse succeeds, every
\* roll returns exactly K die records, each of size N with a value in [1, N],
\* and a value equal to the sum of the record values, hence within [K, K*N].
C2_CountedDiceRoll ==
    (Rolled /\ IsDiceForm(text)
        /\ (CountPart(text) = <<>> \/ IsGrammarNumber(CountPart(text)))
        /\ IsGrammarNumber(SizePart(text))) =>
        LET K == IF CountPart(text) = <<>> THEN Num(1)
                 ELSE GrammarNumberValue(CountPart(text))
            N == GrammarNumberValue(SizePart(text))
            dice == rolled.value.diceRolled
        IN  /\ NumEq(Num(Len(dice)), K)
            /\ \A i \in DOMAIN dice :
                  /\ NumEq(dice[i].size, N)
                  /\ NumLeq(Num(1), dice[i].value) /\ NumLeq(dice[i].value, N)
            /\ NumEq(rolled.value.value, SumOfDice(dice, 1, Len(dice)))
            /\ NumLeq(K, rolled.value.value)
            /\ NumLeq(rolled.value.value, NumMul(K, N))

\* C3: when the text is a numeric literal (integer or decimal, optionally
\* with a leading minus sign), parse succeeds and every roll returns the
\* literal's value with no die record.
C3_NumericLiteral ==
    (Called /\ IsGrammarNumber(text)) =>
        /\ parsed.kind = "ok"
        /\ parsed.value.type = "Numerical"
        /\ rolled.kind # "none" =>
              /\ rolled.kind = "ok"
              /\ NumEq(rolled.value.value, GrammarNumberValue(text))
              /\ rolled.value.diceRolled = <<>>

\* A negative decimal literal has been parsed and rolled.
C3_Witness ==
    Rolled /\ IsGrammarNumber(text) /\ text[1] = "-" /\ includes(text, ".")

\* C6: parse either fails with an Empty, Syntax or DiceCount error or returns
\* an expression that can be rolled; it never returns without an expression.
C6_ErrorOrExpression ==
    /\ Called =>
          \/ parsed.kind \in {"Empty", "Syntax", "DiceCount"}
          \/ parsed.kind = "ok" /\ parsed.value # undefinedExpression
    /\ rolled.kind # "none" => rolled.kind = "ok"

\* C7: a token that is no operator, parenthesis or comma is accepted only if
\* it is a numeral or has the form [count]d<size> with exactly one letter d,
\* a size that is a numeral and a count that is empty or a numeral; every
\* other token makes parse fail with a Syntax error.
IsPrimitiveForm(token) ==
    \/ IsNumeral(token)
    \/ /\ IsDiceForm(token)
       /\ IsNumeral(SizePart(token))
       /\ CountPart(token) = <<>> \/ IsNumeral(CountPart(token))

C7_PrimitiveForms ==
    (Called /\ \E token \in PrimitiveTokens : ~IsPrimitiveForm(token)) =>
        parsed.kind = "Syntax"

\* C9: every Die node of an expression parse returns has size >= 1.
C9_DieSizeAtLeastOne ==
    (parsed.kind = "ok") =>
        \A i \in DOMAIN CountedNodes(parsed.value) :
            NumLeq(Num(1), CountedNodes(parsed.value)[i].dice.size)

\* C10: a text whose parentheses do not match makes parse fail with a Syntax
\* error.
C10_ParenthesisMismatch ==
    (Called /\ ~ParenthesesMatch(text)) => parsed.kind = "Syntax"

\* parse has met a closing parenthesis with none open.
C10_Witness ==
    /\ Called /\ ~ParenthesesMatch(text)
    /\ parsed.message = "Parenthesis mismatch"
    /\ text[Len(text)] = ")"
    /\ \A i \in DOMAIN text : text[i] # "("

(***************************************************************************)
(* SpecOrder: texts of at most MaxOrder tokens (dice of two sizes, two     *)
(* operators of different precedence, parentheses) and the texts of three  *)
(* dice and two operators with one operation in parentheses, parsed and    *)
(* rolled.                                                                 *)
(***************************************************************************)
MaxOrder == 5

OrderPieces ==
    {<<"d", "1">>, <<"2", "d", "2">>, <<"-">>, <<"*">>, <<"(">>, <<")">>}

OrderTexts ==
    TextsOf(OrderPieces, MaxOrder)
        \cup Grouped({<<"d", "1">>, <<"2", "d", "2">>}, Chars({"-", "*"}))

InitOrder == InitWith(OrderTexts)

SpecOrder == InitOrder /\ [][Next]_vars

\* The length of the run of digits of str that ends at position i.
RECURSIVE DigitRunBack(_, _)
DigitRunBack(str, i) ==
    IF i \in DOMAIN str /\ isDigit(str[i]) THEN 1 + DigitRunBack(str, i - 1) ELSE 0

Copies(n, x) == [i \in 1 .. n |-> x]

\* The sizes of the dice the text names, in the order of the text: for each
\* letter d, as many times the number after it as the number before it says
\* (once when there is none).
RECURSIVE SizesInText(_, _)
SizesInText(str, i) ==
    IF i > Len(str) THEN <<>>
    ELSE IF str[i] \in {"d", "D"}
    THEN LET clen == DigitRunBack(str, i - 1)
             count == IF clen = 0 THEN 1 ELSE DigitsValue(str, i - clen, clen)
             size == DigitsValue(str, i + 1, DigitRun(str, i + 1))
         IN  Copies(count, Num(size)) \o SizesInText(str, i + 1)
    ELSE SizesInText(str, i + 1)

\* C4: the die records of a roll appear in the order in which the dice
\* primitives appear in the text, read left to right, each primitive
\* contributing its records consecutively.
C4_DiceInTextOrder ==
    Rolled =>
        [i \in DOMAIN rolled.value.diceRolled |-> rolled.value.diceRolled[i].size]
            = SizesInText(text, 1)

\* A roll of a text of three dice primitives of which the last two, of
\* different sizes, are multiplied before the first is subtracted from.
C4_Witness ==
    /\ Rolled
    /\ parsed.value.type = "InfixArithmetic"
    /\ parsed.value.left.type = "CountedDiceRoll"
    /\ parsed.value.right.type = "InfixArithmetic"
    /\ parsed.value.right.left.type = "CountedDiceRoll"
    /\ parsed.value.right.right.type = "CountedDiceRoll"
    /\ parsed.value.right.left.dice.size # parsed.value.right.right.dice.size

\* The sizes of the die records of a result, in their order.
SizesOf(result) == [i \in DOMAIN result.diceRolled |-> result.diceRolled[i].size]

C16_MaxAndMinFlags ==
    Rolled =>
        \A i \in DOMAIN rolled.value.diceRolled :
            LET die == rolled.value.diceRolled[i]
            IN  /\ die.isMax <=> NumEq(die.value, die.size)
                /\ die.isMin <=> (NumEq(die.value, Num(1)) /\ ~NumEq(die.size, Num(1)))
                /\ ~(die.isMax /\ die.isMin)
                /\ NumEq(die.size, Num(1)) => (die.isMax /\ ~die.isMin)

\* A roll with a die of size 1, a die of size 2 at its minimum and one at its
\* maximum.
C16_Witness ==
    /\ Rolled
    /\ \E i, j, k \in DOMAIN rolled.value.diceRolled :
          /\ rolled.value.diceRolled[i].size = Num(1)
          /\ rolled.value.diceRolled[j].size = Num(2) /\ rolled.value.diceRolled[j].isMin
          /\ rolled.value.diceRolled[k].size = Num(2) /\ rolled.value.diceRolled[k].isMax

(***************************************************************************)
(* SpecConfig: texts of at most MaxPrimitives tokens (dice primitives of   *)
(* several counts, the operator +) and some texts with parentheses and the *)
(* name of an inherited key, parsed by a parser whose maximumDiceCount the *)
(* caller sets to 1 .. MaxDiceCount and back to undefined.                 *)
(***************************************************************************)
MaxPrimitives == 3

MaxDiceCount == 3

ConfigPieces ==
    {<<"d", "2">>, <<"2", "d", "2">>, <<"0", "d", "2">>, <<"-", "2", "d", "2">>,
     <<"1", ".", "5", "d", "2">>, <<"+">>}

ConfigTexts ==
    TextsOf(ConfigPieces, MaxPrimitives)
        \cup {Concat(<<<<"(">>, a, <<")">>, b>>) :
                 a \in {<<"v", "a", "l", "u", "e", "O", "f">>, <<"2", "d", "2">>},
                 b \in {<<"0", "d", "2">>, <<"+", "0", "d", "2">>, <<"+", "d", "2">>}}

InitConfig == InitWith(ConfigTexts)

NextConfig ==
    \/ \E m \in {undefinedNumber} \cup {Num(i) : i \in 1 .. MaxDiceCount} :
          SetMaximumDiceCount(m)
    \/ Parse

SpecConfig == InitConfig /\ [][NextConfig]_vars

RECURSIVE SumOfCounts(_)
SumOfCounts(nodes) ==
    IF nodes = <<>> THEN Num(0)
    ELSE NumAdd(nodes[1].count, SumOfCounts(Tail(nodes)))

\* C5: with maximumDiceCount set to M, parse of an otherwise valid text
\* succeeds when the sum of the counts of its dice primitives is at most M and
\* fails with a DiceCount error when the sum exceeds M, whatever was parsed
\* before; with maximumDiceCount undefined it succeeds.
C5_MaximumDiceCount ==
    LET unlimited == parse(text, undefinedNumber)
    IN  (Called /\ unlimited.kind = "ok") =>
            IF parsedWith = undefinedNumber
               \/ NumLeq(SumOfCounts(CountedNodes(unlimited.value)), parsedWith)
            THEN parsed = unlimited
            ELSE parsed.kind = "DiceCount"

\* A text rejected for its dice count parses once maximumDiceCount is set
\* back to undefined.
C5_Witness ==
    /\ previous = "DiceCount"
    /\ parsedWith = undefinedNumber
    /\ parsed.kind = "ok"

\* The text has a dice primitive whose count is a number below 1.
HasCountBelowOne ==
    \E token \in PrimitiveTokens :
        /\ IsDiceForm(token)
        /\ IsGrammarNumber(CountPart(token))
        /\ NumLess(GrammarNumberValue(CountPart(token)), Num(1))

\* C8: every Counted-Dice node of an expression parse returns has count >= 1,
\* and a dice primitive whose count is zero or negative makes parse fail with
\* a Syntax error.
C8_CountBelowOneIsSyntaxError ==
    /\ (parsed.kind = "ok") =>
          \A i \in DOMAIN CountedNodes(parsed.value) :
              NumLeq(Num(1), CountedNodes(parsed.value)[i].count)
    /\ (Called /\ HasCountBelowOne) => parsed.kind = "Syntax"

(***************************************************************************)
(* SpecTokens: texts of at most MaxChars characters (a digit, the letter   *)
(* d, the decimal point, two operators, the space, parentheses, the comma) *)
(* and some longer texts, with tabs and the name of an inherited key among *)
(* them, parsed and rolled.                                                *)
(***************************************************************************)
MaxChars == 4

TokenAlphabet == Chars({"2", "d", ".", "-", "+", " ", "(", ")", ","})

LongerTexts ==
    {<<"7", " ", "-", "2">>,
     <<"(", "7", ")", "-", "2">>,
     <<"2", " ", "*", " ", "-", "1", "4">>,
     <<"d", " ", "d", "2", "0">>,
     <<"4", " ", "\t", " ", "5">>,
     <<"3", "4", ".", "2", "8", ".", "9">>,
     <<"1", "+", "+", "1">>,
     <<"1", "+", " ", "\t", "*", "1">>,
     <<"(", "1", ",", "+", "2", ")">>,
     <<"2", "(", "2", ")", "2", "+", "*">>,
     <<"\t", " ">>,
     <<"v", "a", "l", "u", "e", "O", "f">>}

TokenTexts == TextsOf(TokenAlphabet, MaxChars) \cup LongerTexts

InitTokens == InitWith(TokenTexts)

SpecTokens == InitTokens /\ [][Next]_vars

\* The text is empty or consists of whitespace only.
IsBlank(str) == \A i \in DOMAIN str : str[i] \in WhiteSpace

\* C11: parse fails with the Empty error exactly when the text tokenizes to
\* zero tokens, that is when it is empty or whitespace only; every other text
\* that is rejected fails with a Syntax or DiceCount error.
C11_EmptyError ==
    Called =>
        /\ (parsed.kind = "Empty") <=> (tokenize(text) = Return(<<>>))
        /\ (parsed.kind = "Empty") <=> IsBlank(text)
        /\ parsed.kind \notin {"ok", "Empty"} => parsed.kind \in {"Syntax", "DiceCount"}

Operators == {"+", "-", "*", "/"}

WordCharacters == Range(Digits) \cup Range(LowerLetters) \cup Range(UpperLetters) \cup {"_"}

\* Nothing but whitespace stands between positions i and j of str.
OnlySpaceBetween(str, i, j) == \A k \in (i + 1) .. (j - 1) : str[k] \in WhiteSpace

\* The character of str at position j is a minus sign with a digit after it.
StartsNegativeLiteral(str, j) ==
    str[j] = "-" /\ (j + 1) \in DOMAIN str /\ isDigit(str[j + 1])

\* An operator follows another operator with no operand between them, and is
\* not a minus sign that starts a negative literal.
HasConsecutiveOperators(str) ==
    \E i, j \in DOMAIN str :
        /\ i < j
        /\ str[i] \in Operators /\ str[j] \in Operators
        /\ OnlySpaceBetween(str, i, j)
        /\ ~StartsNegativeLiteral(str, j)

IsLoneOperator(str) == \E o \in Operators : trim(str) = <<o>>

\* C13: a text in which an operator directly follows another operator, the
\* second not being a minus sign that starts a negative literal, makes parse
\* fail with a Syntax error; so does a text that is a lone operator.
C13_ConsecutiveOperators ==
    (Called /\ (HasConsecutiveOperators(text) \/ IsLoneOperator(text))) =>
        parsed.kind = "Syntax"

\* The tokenizer has rejected an operator that follows another one.
C13_Witness ==
    /\ Called /\ HasConsecutiveOperators(text)
    /\ parsed.message = "Consecutive operators"

\* Whitespace alone separates two word characters of str.
HasSpaceBetweenWords(str) ==
    \E i, j \in DOMAIN str :
        /\ i + 1 < j
        /\ str[i] \in WordCharacters /\ str[j] \in WordCharacters
        /\ OnlySpaceBetween(str, i, j)

\* C14: a text in which whitespace alone separates two word characters makes
\* parse fail with a Syntax error, whatever the length of the whitespace run.
C14_SpaceBetweenWords ==
    (Called /\ HasSpaceBetweenWords(text)) => parsed.kind = "Syntax"

\* The tokenizer has rejected a space between two words that a run of more
\* than one whitespace character separates.
C14_Witness ==
    /\ Called
    /\ parsed.message = "Extraneous space between tokens"
    /\ \E i \in DOMAIN text :
          (i + 1) \in DOMAIN text /\ text[i] \in WhiteSpace /\ text[i + 1] \in WhiteSpace

\* How many decimal points str holds.
PointsIn(str) == Cardinality({i \in DOMAIN str : str[i] = "."})

\* The text as tokenize scans it.
Scanned == collapseSpaces(trim(text))

\* C15: no token emitted by the tokenizer holds more than one decimal point:
\* a '.' met while the token in progress already holds one makes parse fail
\* with a Syntax error; at every turn of the loop the decimal flag is set
\* exactly when the token in progress holds a '.', so that it is clear
\* whenever the token in progress has been reset.
C15_OneDecimalPoint ==
    Called =>
        /\ tokenize(text).kind = "ok" =>
              \A k \in DOMAIN tokenize(text).value : PointsIn(tokenize(text).value[k]) <= 1
        /\ \A n \in DOMAIN tokenizeStates(text) :
              LET at == tokenizeStates(text)[n]
              IN  /\ at.currentAdded <=> (PointsIn(at.current) = 1)
                  /\ PointsIn(at.current) <= 1
                  /\ (at.i \in DOMAIN Scanned /\ Scanned[at.i] = "."
                        /\ PointsIn(at.current) = 1) => parsed.kind = "Syntax"

\* The tokenizer has met a second '.' in a token, after an earlier token
\* with a '.' of its own was emitted.
C15_Witness ==
    /\ Called
    /\ parsed.message = "Invalid \".\" character"
    /\ \E n \in DOMAIN tokenizeStates(text) :
          \E k \in DOMAIN tokenizeStates(text)[n].tokens :
              PointsIn(tokenizeStates(text)[n].tokens[k]) = 1

\* With the token buffer empty, the previously emitted token is absent, a
\* comma, an opening parenthesis or an operator, and the character after
\* position i of the scanned text is a digit.
MinusStartsLiteral(at) ==
    /\ at.current = <<>>
    /\ \/ at.tokens = <<>>
       \/ at.tokens[Len(at.tokens)] \in {<<",">>, <<"(">>} \cup {<<o>> : o \in Operators}
    /\ (at.i + 1) \in DOMAIN Scanned /\ isDigit(Scanned[at.i + 1])

C18_CommaIsSyntaxError ==
    (Called /\ includes(text, ",")) => parsed.kind = "Syntax"

\* C19: a space is a token boundary: when the tokenizer returns, no token
\* it was building when it met a space has been continued by the character
\* after that space.
C19_SpaceIsTokenBoundary ==
    (Called /\ tokenize(text).kind = "ok") =>
        \A n \in DOMAIN tokenizeStates(text) :
            LET at == tokenizeStates(text)[n]
            IN  (/\ at.i \in DOMAIN Scanned /\ Scanned[at.i] = " "
                 /\ at.current # <<>>
                 /\ (n + 2) \in DOMAIN tokenizeStates(text)) =>
                    tokenizeStates(text)[n + 2].current = <<>>

\* The tokens from position k on are the rest of an infix expression: expr is
\* a term followed by operator-term pairs, a term is a primitive or an expr in
\* parentheses. open counts the parentheses still to close; operand tells
\* whether a term or an operator is due.
RECURSIVE InfixFrom(_, _, _, _)
InfixFrom(tokens, k, open, operand) ==
    IF k > Len(tokens) THEN ~operand /\ open = 0
    ELSE IF operand
    THEN IF tokens[k] = <<"(">> THEN InfixFrom(tokens, k + 1, open + 1, TRUE)
         ELSE ~IsDelimiter(tokens[k]) /\ InfixFrom(tokens, k + 1, open, FALSE)
    ELSE IF tokens[k] = <<")">> THEN open > 0 /\ InfixFrom(tokens, k + 1, open - 1, FALSE)
         ELSE /\ tokens[k] \in {<<o>> : o \in Operators}
              /\ InfixFrom(tokens, k + 1, open, TRUE)

\* C20: every text that parse accepts is an infix expression in which
\* operands and binary operators strictly alternate; tokens in any other
\* arrangement make parse fail with a Syntax error.
C20_InfixArrangement ==
    Called =>
        /\ parsed.kind = "ok" => InfixFrom(tokenize(text).value, 1, 0, TRUE)
        /\ (tokenize(text).kind = "ok" /\ tokenize(text).value # <<>>
              /\ ~InfixFrom(tokenize(text).value, 1, 0, TRUE)) => parsed.kind = "Syntax"

(***************************************************************************)
(* SpecBound: texts of at most MaxPrimitives tokens (dice primitives with  *)
(* no count, a whole count and a fractional count, the operator +), parsed *)
(* by a parser whose maximumDiceCount the caller sets to 1 .. MaxDiceCount *)
(* and back to undefined, and rolled.                                      *)
(***************************************************************************)
BoundPieces ==
    {<<"d", "2">>, <<"2", "d", "2">>, <<"1", ".", "5", "d", "2">>, <<"+">>}

BoundTexts == TextsOf(BoundPieces, MaxPrimitives)

InitBound == InitWith(BoundTexts)

NextBound ==
    \/ \E m \in {undefinedNumber} \cup {Num(i) : i \in 1 .. MaxDiceCount} :
          SetMaximumDiceCount(m)
    \/ Parse
    \/ \E tape \in RandomTapes : Roll(tape)

SpecBound == InitBound /\ [][NextBound]_vars

\* C21: when parse succeeds with maximumDiceCount set to M, every roll of
\* the expression it returned evaluates at most M dice: the result holds at
\* most M die records.
C21_RollsAtMostMaximum ==
    (Rolled /\ parsedWith # undefinedNumber) =>
        NumLeq(Num(Len(rolled.value.diceRolled)), parsedWith)

=============================================================================
